---- MODULE Spec2Model ----
(***************************************************************************)
(* The fish-cage monitor sketch (src/sensor_sends.ino, second sketch,      *)
(* lines 102-290): setup(), then loop() = connectWiFi(); handleAlarm();    *)
(* checkPIR(); sensor-post gate; delay(50).                                *)
(*                                                                         *)
(* millis() is an unsigned 32-bit millisecond counter.  A 32-bit value is  *)
(* kept as a pair <<hi, lo>> of 16-bit limbs (value = hi * 2^16 + lo), so   *)
(* that unsigned subtraction and comparison wrap exactly as in the sketch. *)
(***************************************************************************)
EXTENDS Integers, Sequences, FiniteSets, TLC

VARIABLES
  pc,              \* position: "setup", or the next call of loop()
  now,             \* millis(), 32-bit
  wifi,            \* WiFi.status() == WL_CONNECTED
  lastSensorPost,  \* globals of the sketch (lines 142-148)
  lastPIRPost,
  pirPowerUpTime,
  alarmStart,
  alarmActive,
  lastPIRState,
  led,             \* level last written to ledPin
  buzzer,          \* level last written to buzzerPin
  ticks,           \* loop() iterations completed
  run,             \* "boot": this run started at power-on; "late": see InitLate
  prevLevel,       \* observer: the level digitalRead(pirPin) returned last
  triggers,        \* observer: number of triggerAlarm() calls
  rises,           \* observer: LOW-to-HIGH sample pairs seen outside the window
  pirCall,         \* observer: what the last checkPIR() call saw and did
  alarmCall,       \* observer: what the last handleAlarm() call saw
  tickTrig,        \* observer: triggerAlarm() in this tick: "none", "fromIdle", "whileActive"
  tickDeactivated, \* observer: handleAlarm() ended the alarm in this tick
  tickPosts,       \* observer: the postData() calls of this tick, in order
  age,             \* observer: real ms elapsed since an event (-1: never)
  lastOk,          \* observer: result of each timer's previous post
  wloop,           \* connectWiFi() taken step by step: position, t, polls made
  conv             \* readAndPostSensors(): a raw ADC sample and its conversion

vars == <<pc, now, wifi, lastSensorPost, lastPIRPost, pirPowerUpTime, alarmStart,
          alarmActive, lastPIRState, led, buzzer, ticks, run, prevLevel, triggers,
          rises, pirCall, alarmCall, tickTrig, tickDeactivated, tickPosts, age, lastOk,
          wloop, conv>>

-----------------------------------------------------------------------------
(* Program constants *)

SENSOR_POST_INTERVAL == 5000
PIR_POST_INTERVAL == 5000
ALARM_DURATION == 100000
BLINK_INTERVAL == 200
PIR_STABILIZE_TIME == 30000
WIFI_TIMEOUT == 15000
WIFI_POLL_DELAY == 500
WARMUP_DELAY == 50
LOOP_DELAY == 50
LOW == 0
HIGH == 1

ADC_MAX == 4095
PH_TOP == 14
TURB_MIN == 1800
TURB_MAX == 0

(* Bounds of the model *)

MaxTicks == 4

-----------------------------------------------------------------------------
(* unsigned long arithmetic *)

Limb == 2 ^ 16

\* the unsigned long holding n (0 <= n < 2^31)
U32(n) == <<(n \div Limb) % Limb, n % Limb>>

\* a + d in unsigned long arithmetic, d a number of ms (0 <= d < 2^30)
Plus(a, d) ==
  LET s == a[2] + d
  IN  <<(a[1] + (s \div Limb)) % Limb, s % Limb>>

\* a - b in unsigned long arithmetic
Minus(a, b) ==
  LET lo == a[2] - b[2]
      borrow == IF lo < 0 THEN 1 ELSE 0
  IN  <<(a[1] - b[1] - borrow + Limb) % Limb, (lo + Limb) % Limb>>

\* unsigned comparison a < b
Less(a, b) == a[1] < b[1] \/ (a[1] = b[1] /\ a[2] < b[2])

\* a % m for a small modulus m
Mod(a, m) == (((a[1] % m) * (Limb % m)) + a[2]) % m

-----------------------------------------------------------------------------
(* The environment of the sketch *)

\* How long the heartbeat's postData() round trip blocks.
SecurityPostDurations == {0}

\* How long readAndPostSensors() (the probe conversion, then postData) blocks:
\* it returns at once, or hangs until one WiFi poll and one loop delay before
\* the alarm's deadline.
SensorPostDurations == {0, ALARM_DURATION - LOOP_DELAY - WIFI_POLL_DELAY}

\* postData: true iff the HTTP status is 2xx; without a link the POST fails.
PostResults(linked) == IF linked THEN BOOLEAN ELSE {FALSE}

\* The busy-wait of setup(): delay(50) until the window has elapsed.
WarmUp == ((PIR_STABILIZE_TIME + WARMUP_DELAY - 1) \div WARMUP_DELAY) * WARMUP_DELAY

\* Polls of connectWiFi()'s loop until millis() - t < 15000 fails.
WiFiMaxPolls == (WIFI_TIMEOUT + WIFI_POLL_DELAY - 1) \div WIFI_POLL_DELAY

\* connectWiFi(): time spent and link state on return.  Already connected:
\* returns at once.  Otherwise the link comes up during the first poll, or
\* never and the loop runs into its timeout.
WiFiOutcomes(connected) ==
  IF connected
    THEN {[elapsed |-> 0, up |-> TRUE]}
    ELSE {[elapsed |-> WIFI_POLL_DELAY, up |-> TRUE],
          [elapsed |-> WiFiMaxPolls * WIFI_POLL_DELAY, up |-> FALSE]}

\* real time passing: every running age grows by d
Older(a, d) == [k \in DOMAIN a |-> IF a[k] < 0 THEN -1 ELSE a[k] + d]

-----------------------------------------------------------------------------
(* The decisions of the sketch *)

\* checkPIR, line 238
Stabilizing(t) == Less(Minus(t, pirPowerUpTime), U32(PIR_STABILIZE_TIME))

\* a stabilizing branch that returns without recording the level
StabilizeRecordSkipped(cur, last) == last

\* checkPIR, line 239: what the stabilizing branch stores in lastPIRState
StabilizeRecord(cur, last) == cur

\* a level-triggered test in place of the edge test
RisingEdgeLevelOnly(cur, last) == cur = HIGH

\* checkPIR, line 242
RisingEdge(cur, last) == cur = HIGH /\ last = LOW

\* a gate written millis() >= last + interval: the sum overflows
PostDueAbsolute(t, last, interval) == ~Less(t, Plus(last, interval))

\* the timer gates, lines 245 and 284
PostDue(t, last, interval) == ~Less(Minus(t, last), U32(interval))

\* a timer that only advances when the post succeeded
TimerAfterPostIfOk(last, t, ok) == IF ok THEN t ELSE last

\* lines 251 and 286: the timer after a post that ended at t with result ok
TimerAfterPost(last, t, ok) == t

\* a timeout written millis() > alarmStart + ALARM_DURATION: the sum overflows
AlarmExpiredAbsolute(t, start) == Less(Plus(start, ALARM_DURATION), t)

\* handleAlarm, line 229
AlarmExpired(t, start) == Less(U32(ALARM_DURATION), Minus(t, start))

\* constrain(amt, low, high) of the Arduino core
Constrain(amt, low, high) == IF amt < low THEN low ELSE IF amt > high THEN high ELSE amt

\* a / b on C++ integers: the quotient is truncated toward zero
TruncDiv(a, b) ==
  LET q == (IF a < 0 THEN -a ELSE a) \div (IF b < 0 THEN -b ELSE b)
  IN  IF (a < 0) = (b < 0) THEN q ELSE -q

\* map(x, in_min, in_max, out_min, out_max) of the Arduino core, on long
MapLong(x, in_min, in_max, out_min, out_max) ==
  TruncDiv((x - in_min) * (out_max - out_min), in_max - in_min) + out_min

\* pH values are kept as exact fractions with this denominator:
\* 3.3 / 4095.0 = 33 / PHScale
PHScale == 10 * ADC_MAX

\* the same formula with a 5.0 V reference in place of 3.3 V
PHUnclamped5V(raw) == PH_TOP * PHScale - raw * 50 * 4

\* line 195 before constrain: 14.0 - rawPH * (3.3 / 4095.0) * 4.0, in 1/PHScale
PHUnclamped(raw) == PH_TOP * PHScale - raw * 33 * 4

\* line 195: the pH, in 1/PHScale
ToPH(raw) == Constrain(PHUnclamped(raw), 0, PH_TOP * PHScale)

\* line 199 before constrain: map(rawT, TURB_MIN, TURB_MAX, 0, 100)
TurbidityMapped(raw) == MapLong(raw, TURB_MIN, TURB_MAX, 0, 100)

\* line 199: the turbidity percent stored in the float turb
ToTurbidity(raw) == Constrain(TurbidityMapped(raw), 0, 100)

\* a wait for the link without a timeout
WiFiWaitingNoTimeout(up, t, t0) == ~up

\* connectWiFi, line 156: the condition of the polling loop, t0 the time of
\* WiFi.begin
WiFiWaiting(up, t, t0) == ~up /\ Less(Minus(t, t0), U32(WIFI_TIMEOUT))

\* handleAlarm, line 226
BlinkOn(t) == IF Mod(t, BLINK_INTERVAL * 2) < BLINK_INTERVAL THEN HIGH ELSE LOW

\* a deactivation that leaves the pins at the blink level just written
LevelAfterExpiryKept(on) == on

\* handleAlarm, lines 231-232: the level written to both pins on deactivation,
\* after the blink level on was written at lines 227-228
LevelAfterExpiry(on) == LOW

\* a heartbeat that is only sent with a rising edge
HeartbeatGateOnEdge(due, edge) == due /\ edge

\* checkPIR, line 245: the heartbeat is posted iff its timer is due; the edge
\* found at line 242 is not part of the condition
HeartbeatGate(due, edge) == due

\* a setup() that starts both timers at the current time
ForcedLastNow(t, interval) == t

\* setup, lines 275-276: a timer value that is exactly due at time t
ForcedLast(t, interval) == Minus(t, U32(interval))

-----------------------------------------------------------------------------
(* Initial states *)

NoPirCall ==
  [called |-> FALSE, stab |-> FALSE, cur |-> LOW, prev |-> LOW,
   edge |-> FALSE, wasActive |-> FALSE, startBefore |-> U32(0), windowRise |-> FALSE,
   heldAcross |-> FALSE, ready |-> FALSE, relapsed |-> FALSE]

NoWiFiCall ==
  [pc |-> "idle", t |-> U32(0), start |-> U32(0), wasUp |-> FALSE, begun |-> FALSE,
   polls |-> 0]

NoConversion == [pc |-> "idle", pin |-> "none", raw |-> 0, value |-> 0, unclamped |-> 0,
                 before |-> -1]

NoAlarmCall ==
  [wasActive |-> FALSE, elapsed |-> U32(0), blink |-> LOW, onEver |-> FALSE]

\* Power-on: the globals hold their initialisers, setup() has not run.
InitBoot ==
  /\ pc = "setup"
  /\ run = "boot"
  /\ now = U32(0)
  /\ wifi = FALSE
  /\ lastSensorPost = U32(0)
  /\ lastPIRPost = U32(0)
  /\ age = [trig |-> -1, act |-> -1, sensor |-> -1, pir |-> -1]

\* The sketch after 2^32 - 2 * LOOP_DELAY ms of uptime without motion, at the
\* top of loop(), both timers exactly due: the millisecond counter is about
\* to wrap.
LateStart == Minus(U32(0), U32(2 * LOOP_DELAY))

InitLate ==
  /\ pc = "connectWiFi"
  /\ run = "late"
  /\ now = LateStart
  /\ wifi \in BOOLEAN
  /\ lastSensorPost = Minus(LateStart, U32(SENSOR_POST_INTERVAL))
  /\ lastPIRPost = Minus(LateStart, U32(PIR_POST_INTERVAL))
  /\ age = [trig |-> -1, act |-> -1, sensor |-> SENSOR_POST_INTERVAL,
            pir |-> PIR_POST_INTERVAL]

Init ==
  /\ InitBoot \/ InitLate
  /\ pirPowerUpTime = U32(0)
  /\ alarmStart = U32(0)
  /\ alarmActive = FALSE
  /\ lastPIRState = LOW
  /\ led = LOW
  /\ buzzer = LOW
  /\ ticks = 0
  /\ prevLevel = LOW
  /\ triggers = 0
  /\ rises = 0
  /\ pirCall = NoPirCall
  /\ alarmCall = NoAlarmCall
  /\ tickTrig = "none"
  /\ tickDeactivated = FALSE
  /\ tickPosts = <<>>
  /\ lastOk = [sensor |-> TRUE, pir |-> TRUE]
  /\ wloop = NoWiFiCall
  /\ conv = NoConversion

-----------------------------------------------------------------------------
(* Actions *)

\* setup(), lines 256-277
Setup ==
  /\ pc = "setup"
  /\ UNCHANGED <<wloop, conv>>
  /\ \E o \in WiFiOutcomes(wifi) :
       LET ready == Plus(Plus(now, WarmUp), o.elapsed)
       IN  /\ pirPowerUpTime' = now
           /\ now' = ready
           /\ wifi' = o.up
           /\ lastSensorPost' = ForcedLast(ready, SENSOR_POST_INTERVAL)
           /\ lastPIRPost' = ForcedLast(ready, PIR_POST_INTERVAL)
           /\ age' = Older(age, WarmUp + o.elapsed)
  /\ led' = LOW
  /\ buzzer' = LOW
  /\ pc' = "connectWiFi"
  /\ UNCHANGED <<alarmStart, alarmActive, lastPIRState, ticks, run, prevLevel,
                 triggers, rises, pirCall, alarmCall, tickTrig, tickDeactivated,
                 tickPosts, lastOk>>

\* loop(), line 280: connectWiFi()
ConnectWiFi ==
  /\ pc = "connectWiFi"
  /\ UNCHANGED <<wloop, conv>>
  /\ \E o \in WiFiOutcomes(wifi) :
       /\ now' = Plus(now, o.elapsed)
       /\ wifi' = o.up
       /\ age' = Older(age, o.elapsed)
  /\ pc' = "handleAlarm"
  /\ UNCHANGED <<lastSensorPost, lastPIRPost, pirPowerUpTime, alarmStart, alarmActive,
                 lastPIRState, led, buzzer, ticks, run, prevLevel, triggers, rises,
                 pirCall, alarmCall, tickTrig, tickDeactivated, tickPosts, lastOk>>

\* loop(), line 281: handleAlarm(), lines 224-235
HandleAlarm ==
  /\ pc = "handleAlarm"
  /\ UNCHANGED <<wloop, conv>>
  /\ alarmCall' = [wasActive |-> alarmActive, elapsed |-> Minus(now, alarmStart),
                   blink |-> IF alarmActive THEN BlinkOn(now) ELSE LOW,
                   onEver |-> alarmCall.onEver \/ (alarmActive /\ BlinkOn(now) = HIGH)]
  /\ IF ~alarmActive
       THEN UNCHANGED <<alarmActive, led, buzzer, tickDeactivated, age>>
       ELSE IF AlarmExpired(now, alarmStart)
         THEN /\ alarmActive' = FALSE
              /\ led' = LevelAfterExpiry(BlinkOn(now))
              /\ buzzer' = LevelAfterExpiry(BlinkOn(now))
              /\ tickDeactivated' = TRUE
              /\ age' = [age EXCEPT !.act = -1]
         ELSE /\ led' = BlinkOn(now)
              /\ buzzer' = BlinkOn(now)
              /\ UNCHANGED <<alarmActive, tickDeactivated, age>>
  /\ pc' = "checkPIR"
  /\ UNCHANGED <<now, wifi, lastSensorPost, lastPIRPost, pirPowerUpTime, alarmStart,
                 lastPIRState, ticks, run, prevLevel, triggers, rises, pirCall,
                 tickTrig, tickPosts, lastOk>>

\* loop(), line 282: checkPIR(), lines 236-253 (with triggerAlarm, lines 219-223)
CheckPIR ==
  /\ pc = "checkPIR"
  /\ UNCHANGED <<wloop, conv>>
  /\ \E cur \in {LOW, HIGH} :
       LET stab == Stabilizing(now)
           edge == ~stab /\ RisingEdge(cur, lastPIRState)
           due == ~stab /\ HeartbeatGate(PostDue(now, lastPIRPost, PIR_POST_INTERVAL), edge)
       IN  /\ prevLevel' = cur
           /\ lastPIRState' = IF stab THEN StabilizeRecord(cur, lastPIRState) ELSE cur
           /\ rises' = IF ~stab /\ cur = HIGH /\ prevLevel = LOW THEN rises + 1 ELSE rises
           /\ triggers' = IF edge THEN triggers + 1 ELSE triggers
           /\ alarmActive' = IF edge THEN TRUE ELSE alarmActive
           /\ alarmStart' = IF edge THEN now ELSE alarmStart
           /\ tickTrig' = IF ~edge THEN tickTrig
                          ELSE IF alarmActive THEN "whileActive" ELSE "fromIdle"
           /\ pirCall' =
                [called |-> TRUE, stab |-> stab,
                 cur |-> cur, prev |-> prevLevel, edge |-> edge,
                 wasActive |-> alarmActive, startBefore |-> alarmStart,
                 windowRise |->
                   IF stab
                     THEN cur = HIGH /\ (prevLevel = LOW \/ (pirCall.stab /\ pirCall.windowRise))
                     ELSE FALSE,
                 heldAcross |->
                   ~stab /\ pirCall.stab /\ pirCall.windowRise /\ cur = HIGH,
                 ready |-> pirCall.ready \/ ~stab,
                 relapsed |-> pirCall.ready /\ stab]
           /\ \E d \in (IF due THEN SecurityPostDurations ELSE {0}) :
              \E ok \in (IF due THEN PostResults(wifi) ELSE {TRUE}) :
                /\ now' = Plus(now, d)
                /\ lastPIRPost' = IF due THEN TimerAfterPost(lastPIRPost, Plus(now, d), ok)
                                  ELSE lastPIRPost
                /\ tickPosts' =
                     IF due
                       THEN Append(tickPosts,
                              [url |-> "security", status |-> cur, ok |-> ok,
                               linked |-> wifi, at |-> now, prevLast |-> lastPIRPost,
                               age |-> age.pir, prevOk |-> lastOk.pir])
                       ELSE tickPosts
                /\ lastOk' = IF due THEN [lastOk EXCEPT !.pir = ok] ELSE lastOk
                /\ age' =
                     LET a1 == [age EXCEPT
                                  !.trig = IF edge THEN 0 ELSE @,
                                  !.act = IF edge /\ ~alarmActive THEN 0 ELSE @]
                         a2 == Older(a1, d)
                     IN  IF due THEN [a2 EXCEPT !.pir = 0] ELSE a2
  /\ pc' = "sensorPost"
  /\ UNCHANGED <<wifi, lastSensorPost, pirPowerUpTime, led, buzzer, ticks, run,
                 alarmCall, tickDeactivated>>

\* loop(), lines 284-287: the sensor-post gate around readAndPostSensors()
SensorPost ==
  /\ pc = "sensorPost"
  /\ UNCHANGED <<wloop, conv>>
  /\ LET due == PostDue(now, lastSensorPost, SENSOR_POST_INTERVAL)
     IN  \E d \in (IF due THEN SensorPostDurations ELSE {0}) :
         \E ok \in (IF due THEN PostResults(wifi) ELSE {TRUE}) :
           /\ now' = Plus(now, d)
           /\ lastSensorPost' = IF due THEN TimerAfterPost(lastSensorPost, Plus(now, d), ok)
                                ELSE lastSensorPost
           /\ tickPosts' =
                IF due
                  THEN Append(tickPosts,
                         [url |-> "sensor", status |-> -1, ok |-> ok,
                          linked |-> wifi, at |-> now, prevLast |-> lastSensorPost,
                          age |-> age.sensor, prevOk |-> lastOk.sensor])
                  ELSE tickPosts
           /\ lastOk' = IF due THEN [lastOk EXCEPT !.sensor = ok] ELSE lastOk
           /\ age' = IF due THEN [Older(age, d) EXCEPT !.sensor = 0] ELSE Older(age, d)
  /\ pc' = "delay"
  /\ UNCHANGED <<wifi, lastPIRPost, pirPowerUpTime, alarmStart, alarmActive,
                 lastPIRState, led, buzzer, ticks, run, prevLevel, triggers, rises,
                 pirCall, alarmCall, tickTrig, tickDeactivated>>

\* loop(), line 289: delay(50), and the return to the top of loop().  The link
\* may drop while the sketch idles.
Delay ==
  /\ pc = "delay"
  /\ UNCHANGED <<wloop, conv>>
  /\ ticks < MaxTicks
  /\ now' = Plus(now, LOOP_DELAY)
  /\ age' = Older(age, LOOP_DELAY)
  /\ wifi' \in (IF wifi THEN BOOLEAN ELSE {FALSE})
  /\ ticks' = ticks + 1
  /\ tickTrig' = "none"
  /\ tickDeactivated' = FALSE
  /\ tickPosts' = <<>>
  /\ pc' = "connectWiFi"
  /\ UNCHANGED <<lastSensorPost, lastPIRPost, pirPowerUpTime, alarmStart, alarmActive,
                 lastPIRState, led, buzzer, run, prevLevel, triggers, rises, pirCall,
                 alarmCall, lastOk>>

Next == Setup \/ ConnectWiFi \/ HandleAlarm \/ CheckPIR \/ SensorPost \/ Delay

Spec == Init /\ [][Next]_vars

-----------------------------------------------------------------------------
(* connectWiFi(), lines 151-164, one loop iteration per step *)

\* everything but the clock and the link, as at power-on
AtRest ==
  /\ pc = "setup"
  /\ run = "boot"
  /\ lastSensorPost = U32(0)
  /\ lastPIRPost = U32(0)
  /\ pirPowerUpTime = U32(0)
  /\ alarmStart = U32(0)
  /\ alarmActive = FALSE
  /\ lastPIRState = LOW
  /\ led = LOW
  /\ buzzer = LOW
  /\ ticks = 0
  /\ prevLevel = LOW
  /\ triggers = 0
  /\ rises = 0
  /\ pirCall = NoPirCall
  /\ alarmCall = NoAlarmCall
  /\ tickTrig = "none"
  /\ tickDeactivated = FALSE
  /\ tickPosts = <<>>
  /\ age = [trig |-> -1, act |-> -1, sensor |-> -1, pir |-> -1]
  /\ lastOk = [sensor |-> TRUE, pir |-> TRUE]

restVars == <<pc, lastSensorPost, lastPIRPost, pirPowerUpTime, alarmStart,
              alarmActive, lastPIRState, led, buzzer, ticks, run, prevLevel, triggers,
              rises, pirCall, alarmCall, tickTrig, tickDeactivated, tickPosts, age,
              lastOk>>

\* Values of millis() at which connectWiFi() is entered: in setup() after the
\* warm-up, and from loop() shortly before the counter wraps, so that the
\* wait runs across the wrap.
WiFiCallTimes ==
  {U32(WarmUp), LateStart, Minus(U32(0), U32(WIFI_POLL_DELAY)),
   Minus(U32(0), U32(WIFI_TIMEOUT \div 2)), Minus(U32(0), U32(WIFI_TIMEOUT))}

InitWiFi ==
  /\ AtRest
  /\ now \in WiFiCallTimes
  /\ wifi \in BOOLEAN
  /\ wloop = [pc |-> "call", t |-> U32(0), start |-> now, wasUp |-> wifi,
              begun |-> FALSE, polls |-> 0]
  /\ conv = NoConversion

\* lines 152-155: return if connected, else WiFi.begin and t = millis()
WiFiEnter ==
  /\ wloop.pc = "call"
  /\ IF wifi
       THEN wloop' = [wloop EXCEPT !.pc = "done"]
       ELSE wloop' = [wloop EXCEPT !.pc = "poll", !.begun = TRUE, !.t = now]
  /\ UNCHANGED <<now, wifi, restVars, conv>>

\* lines 156-159: the loop condition holds, delay(500); the association may
\* complete meanwhile
WiFiPoll ==
  /\ wloop.pc = "poll"
  /\ WiFiWaiting(wifi, now, wloop.t)
  /\ now' = Plus(now, WIFI_POLL_DELAY)
  /\ wifi' \in BOOLEAN
  /\ wloop' = [wloop EXCEPT !.polls = @ + 1]
  /\ UNCHANGED <<restVars, conv>>

\* lines 156, 160-163: the loop condition fails, the outcome is logged and
\* connectWiFi returns
WiFiReturn ==
  /\ wloop.pc = "poll"
  /\ ~WiFiWaiting(wifi, now, wloop.t)
  /\ wloop' = [wloop EXCEPT !.pc = "done"]
  /\ UNCHANGED <<now, wifi, restVars, conv>>

NextWiFi == WiFiEnter \/ WiFiPoll \/ WiFiReturn

\* The sketch is the only thread and delay() returns: a step that is possible
\* is eventually taken.
SpecWiFi == InitWiFi /\ [][NextWiFi]_vars /\ WF_vars(NextWiFi)

-----------------------------------------------------------------------------
(* The conversions of readAndPostSensors(), lines 193-199 *)

\* analogRead on the 12-bit ADC returns any value in 0..4095, for either pin
InitConv ==
  /\ AtRest
  /\ now = U32(0)
  /\ wifi = FALSE
  /\ wloop = NoWiFiCall
  /\ \E p \in {"ph", "turbidity"}, r \in 0..ADC_MAX :
       conv = [NoConversion EXCEPT !.pc = "read", !.pin = p, !.raw = r]

\* lines 194-195
ConvertPH ==
  /\ conv.pc = "read"
  /\ conv.pin = "ph"
  /\ conv' = [conv EXCEPT !.pc = "done",
                          !.unclamped = PHUnclamped(conv.raw),
                          !.value = ToPH(conv.raw)]
  /\ UNCHANGED <<now, wifi, restVars, wloop>>

\* lines 198-199
ConvertTurbidity ==
  /\ conv.pc = "read"
  /\ conv.pin = "turbidity"
  /\ conv' = [conv EXCEPT !.pc = "done",
                          !.unclamped = TurbidityMapped(conv.raw),
                          !.value = ToTurbidity(conv.raw)]
  /\ UNCHANGED <<now, wifi, restVars, wloop>>

\* the next reading of the same pin is one count higher; the value converted
\* from this reading is kept for comparison
NextSample ==
  /\ conv.pc = "done"
  /\ conv.raw < ADC_MAX
  /\ conv' = [conv EXCEPT !.pc = "read", !.raw = @ + 1, !.before = conv.value,
                          !.value = 0, !.unclamped = 0]
  /\ UNCHANGED <<now, wifi, restVars, wloop>>

NextConv == ConvertPH \/ ConvertTurbidity \/ NextSample

SpecConv == InitConv /\ [][NextConv]_vars

-----------------------------------------------------------------------------
(* Properties *)

Interval(url) == IF url = "sensor" THEN SENSOR_POST_INTERVAL ELSE PIR_POST_INTERVAL

PostsOfTick == {tickPosts[i] : i \in 1..Len(tickPosts)}

C3_RetriggerKeepsStart ==
  (pc = "sensorPost" /\ pirCall.edge /\ pirCall.wasActive) =>
    (alarmActive /\ alarmStart = pirCall.startBefore)

\* C4: a handleAlarm() call made while Active at millis() - alarmStart =
\* ALARM_DURATION exactly ends the alarm in that call.
C4_DeactivatesAtExactDuration ==
  (pc = "checkPIR" /\ alarmCall.wasActive /\ alarmCall.elapsed = U32(ALARM_DURATION)) =>
    ~alarmActive

\* C5: alarmActive goes from true to false only in handleAlarm(), and only
\* when at least ALARM_DURATION ms of real time have passed since the alarm
\* was activated (and since the last triggerAlarm()), also when millis()
\* wrapped in between.
C5_NeverDeactivatedEarly ==
  [][(alarmActive /\ ~alarmActive') =>
       /\ pc = "handleAlarm"
       /\ age.trig >= ALARM_DURATION
       /\ age.act >= ALARM_DURATION
       /\ ~Less(Minus(now, alarmStart), U32(ALARM_DURATION))]_vars

\* handleAlarm() has just ended an alarm that began before millis() wrapped
C5_Witness == tickDeactivated /\ Less(now, alarmStart)

\* C6: every activation is followed by deactivation whatever the PIR does while
\* Active; stated on finite runs: the alarm is Idle after every handleAlarm()
\* call made more than ALARM_DURATION ms after the Idle-to-Active transition
\* (the first call at which the timeout of that activation can be seen).
C6_DeactivatedOnceDurationPassed ==
  (pc = "checkPIR" /\ age.act > ALARM_DURATION) => ~alarmActive

\* C7: a post of either timer fires only at a gate where (now - last) mod 2^32
\* >= interval, and never less than interval ms of real time after the timer
\* was last updated by a firing.
C7_TimerSpacing ==
  \A p \in PostsOfTick :
    /\ ~Less(Minus(p.at, p.prevLast), U32(Interval(p.url)))
    /\ p.age >= 0 => p.age >= Interval(p.url)

\* a heartbeat fired across the wrap of millis(): its gate time is below the
\* timer value left by the firing before it
C7_Witness ==
  \E p \in PostsOfTick :
    p.url = "security" /\ Less(p.at, p.prevLast) /\ p.age >= PIR_POST_INTERVAL

\* C8: when a gate fires, its timer is set to the time postData() returned,
\* whether it returned true or false; the attempt after a failed post comes no
\* sooner than interval ms after that failure.
C8_FailedPostAdvancesTimer ==
  /\ (pc = "sensorPost" /\ \E p \in PostsOfTick : p.url = "security") => lastPIRPost = now
  /\ (pc = "delay" /\ \E p \in PostsOfTick : p.url = "sensor") => lastSensorPost = now
  /\ \A p \in PostsOfTick : ~p.prevOk => p.age >= Interval(p.url)

\* a sensor post has just failed with its timer advanced, and this firing was
\* itself the attempt that followed a failed one
C8_Witness ==
  /\ pc = "delay"
  /\ \E p \in PostsOfTick : p.url = "sensor" /\ ~p.ok /\ ~p.prevOk
  /\ lastSensorPost = now

\* C9: in a tick where the link is down after connectWiFi() returned, neither
\* checkPIR() nor readAndPostSensors() calls postData().
C9_NoPostWhileDisconnected == \A p \in PostsOfTick : p.linked

\* C10: at the end of a tick in which triggerAlarm() ran from Idle, LED and
\* buzzer are both HIGH.
C10_IndicatorsOnAtActivation ==
  (pc = "delay" /\ tickTrig = "fromIdle") => (led = HIGH /\ buzzer = HIGH)

\* C11: while the alarm is Active, the level handleAlarm writes to the LED and
\* the buzzer depends only on (now - alarmStart) mod (2 * BLINK_INTERVAL): HIGH
\* in the first BLINK_INTERVAL ms of each period counted from the activation
\* time, LOW in the second.
C11_BlinkPhaseFromActivation ==
  (pc = "checkPIR" /\ alarmCall.wasActive /\ alarmActive) =>
    LET level == IF Mod(alarmCall.elapsed, BLINK_INTERVAL * 2) < BLINK_INTERVAL
                   THEN HIGH ELSE LOW
    IN  led = level /\ buzzer = level

\* C12: at the end of the handleAlarm call that sets alarmActive to false the
\* LED and the buzzer are both LOW, whatever blink level that call wrote first
\* (and they stay LOW for the rest of that tick).
C12_OffOnDeactivation ==
  tickDeactivated => (led = LOW /\ buzzer = LOW)

\* the deactivating call had written the blink level HIGH before it ended the alarm
C12_Witness ==
  /\ pc = "checkPIR"
  /\ tickDeactivated
  /\ alarmCall.wasActive
  /\ alarmCall.blink = HIGH
  /\ ~alarmActive
  /\ led = LOW
  /\ buzzer = LOW

\* C14: the motion post is a heartbeat.  A checkPIR call outside the
\* stabilization window whose timer is due (now - lastPIRPost >=
\* PIR_POST_INTERVAL) makes exactly one post, to the security endpoint, with
\* the level it just read (0 or 1) as status, with or without a rising edge and
\* with the alarm Active or Idle; a call whose timer is not due makes no post,
\* rising edge or not.
C14_HeartbeatNotEdge ==
  [][(pc = "checkPIR" /\ pc' = "sensorPost") =>
       LET timerDue == /\ ~Less(Minus(now, pirPowerUpTime), U32(PIR_STABILIZE_TIME))
                       /\ ~Less(Minus(now, lastPIRPost), U32(PIR_POST_INTERVAL))
       IN  IF timerDue
             THEN /\ Len(tickPosts') = Len(tickPosts) + 1
                  /\ tickPosts'[Len(tickPosts')].url = "security"
                  /\ tickPosts'[Len(tickPosts')].status = prevLevel'
                  /\ prevLevel' \in {0, 1}
             ELSE tickPosts' = tickPosts]_vars

\* a heartbeat carrying HIGH was posted by a call that saw no rising edge,
\* while the alarm was Active
C14_Witness ==
  /\ pc = "sensorPost"
  /\ ~pirCall.stab
  /\ ~pirCall.edge
  /\ pirCall.wasActive
  /\ \E p \in PostsOfTick : p.url = "security" /\ p.status = HIGH

\* C17: stabilization is entered only once.  After a checkPIR call has found
\* now - pirPowerUpTime >= PIR_STABILIZE_TIME, no later checkPIR call takes the
\* stabilizing early return, also after the millisecond clock has wrapped.
C17_StabilizationOnlyOnce ==
  pirCall.called => ~pirCall.relapsed

\* C18: at the end of every loop iteration, if the alarm is Idle then the LED
\* and the buzzer are both LOW.
C18_IdleMeansIndicatorsOff ==
  (pc = "delay" /\ ~alarmActive) => (led = LOW /\ buzzer = LOW)

\* the end of a tick with the alarm Idle again after an alarm whose blink had
\* driven the indicators HIGH
C18_Witness ==
  /\ pc = "delay"
  /\ ~alarmActive
  /\ alarmCall.onEver
  /\ triggers > 0
  /\ led = LOW
  /\ buzzer = LOW

\* C19: in the first loop tick after setup() both posts fire, the motion
\* heartbeat first and the sensor post second, however long connectWiFi took
\* in setup() or in that tick.
C19_FirstTickPostsBoth ==
  (run = "boot" /\ ticks = 0 /\ pc = "delay") =>
    /\ Len(tickPosts) = 2
    /\ tickPosts[1].url = "security"
    /\ tickPosts[2].url = "sensor"

\* the first tick ended with both posts made although connectWiFi ran into
\* its timeout in setup() and again at the top of that tick
C19_Witness ==
  /\ run = "boot"
  /\ ticks = 0
  /\ pc = "delay"
  /\ ~wifi
  /\ Len(tickPosts) = 2
  /\ tickPosts[1].at = U32(WarmUp + 2 * WiFiMaxPolls * WIFI_POLL_DELAY)

\* C13: connectWiFi always returns.  Entered with the link up it returns
\* without WiFi.begin and without waiting; otherwise it polls while the link is
\* down and fewer than WIFI_TIMEOUT ms have passed since WiFi.begin (unsigned
\* difference, so also across the wrap of millis()), and returns at the first
\* check that finds the link up or the time elapsed, after at most
\* WIFI_TIMEOUT ms even if the link never comes up.
C13_ConnectWiFiReturns ==
  /\ <>(wloop.pc = "done")
  /\ [](wloop.polls <= WiFiMaxPolls)
  /\ []((wloop.pc = "done") =>
          /\ Minus(now, wloop.start) = U32(wloop.polls * WIFI_POLL_DELAY)
          /\ wloop.polls * WIFI_POLL_DELAY <= WIFI_TIMEOUT
          /\ wloop.wasUp => (~wloop.begun /\ wloop.polls = 0 /\ wifi)
          /\ ~wloop.wasUp =>
                (wloop.begun /\ (wifi \/ wloop.polls * WIFI_POLL_DELAY >= WIFI_TIMEOUT))
          /\ (wloop.wasUp \/ ~wifi) =>
                [elapsed |-> wloop.polls * WIFI_POLL_DELAY, up |-> wifi]
                  \in WiFiOutcomes(wloop.wasUp))
  /\ [][(wloop.pc = "poll" /\ (wifi \/ wloop.polls = WiFiMaxPolls)) =>
          (wloop'.pc = "done" /\ now' = now)]_vars

\* connectWiFi returned with the link still down after the full timeout, and
\* millis() wrapped during the wait
C13_Witness ==
  /\ wloop.pc = "done"
  /\ ~wifi
  /\ wloop.polls = WiFiMaxPolls
  /\ Less(now, wloop.t)

\* C15: for every raw pH sample in 0..4095 the converted pH lies in [0, 14]
\* and is smaller than the pH converted from the next lower sample; raw 0
\* gives 14.0 and raw 4095 gives 0.8, in both cases with the value unchanged
\* by the clamp.
C15_PHRange ==
  (conv.pc = "done" /\ conv.pin = "ph") =>
    /\ 0 <= conv.value
    /\ conv.value <= PH_TOP * PHScale
    /\ conv.before >= 0 => conv.value < conv.before
    /\ conv.raw = 0 => (conv.value = 14 * PHScale /\ conv.unclamped = conv.value)
    /\ conv.raw = ADC_MAX =>
         (conv.value * 10 = 8 * PHScale /\ conv.unclamped = conv.value)

\* the full-scale sample converted to 0.8, below the value of sample 4094
C15_Witness ==
  /\ conv.pc = "done"
  /\ conv.pin = "ph"
  /\ conv.raw = ADC_MAX
  /\ conv.before > conv.value
  /\ conv.value * 10 = 8 * PHScale

\* C16: for every raw turbidity sample in 0..4095 the converted percent lies
\* in [0, 100], equals the linear value 100 * (TURB_MIN - raw) / (TURB_MIN -
\* TURB_MAX) for raw between the calibration points (TURB_MIN = 1800 giving 0,
\* TURB_MAX = 0 giving 100), and is clamped at and beyond them: 0 for every
\* raw >= 1800, 100 for raw 0.
C16_TurbidityLinear ==
  (conv.pc = "done" /\ conv.pin = "turbidity") =>
    /\ 0 <= conv.value
    /\ conv.value <= 100
    /\ conv.raw >= TURB_MIN => conv.value = 0
    /\ conv.raw = TURB_MAX => conv.value = 100
    /\ (TURB_MAX <= conv.raw /\ conv.raw <= TURB_MIN) =>
         conv.value * (TURB_MIN - TURB_MAX) = 100 * (TURB_MIN - conv.raw)

====
